---- MODULE Spec2Model ----
(***************************************************************************)
(* go-topo: layered topological sorting of a dependency graph.             *)
(*                                                                         *)
(* Graph[T] holds the slice g.nodes of (value, deps) pairs.  AddNode       *)
(* appends one pair.  SortByLayers builds three maps from the pairs, scans *)
(* allValues for the first layer, peels the graph layer by layer and then  *)
(* scans allValues again for values that were never visited.              *)
(*                                                                         *)
(* A call of SortByLayers is a process: its position is pc[p], its locals  *)
(* are the components at p of the variables below.  Ranging over a Go map  *)
(* visits every key once in an unspecified order: scan[p] holds the keys   *)
(* the running range has not visited yet, and a step takes any of them.    *)
(***************************************************************************)
EXTENDS Integers, Sequences, FiniteSets, TLC

\* Bounds of the model.
NumIds == 3
MaxDeps == 2
MaxNodes == 3
MaxNodesPair == 2

Ids == 1..NumIds
DepLists == UNION {[1..n -> Ids] : n \in 0..MaxDeps}
Graphs == {1, 2}
Calls == {1, 2}
NoGraph == 0

ErrNil == "nil"
ErrCyclicDependency == "cyclic dependency detected"

VARIABLES
    nodes,          \* nodes[g]: the slice g.nodes of graph g
    pc,             \* pc[p]: where call p of SortByLayers stands
    recv,           \* recv[p]: the graph call p was invoked on
    idx,            \* idx[p]: position of the range over g.nodes
    dependsOn,      \* dependsOn[p]: map value -> deps
    dependedOnBy,   \* dependedOnBy[p]: map value -> dependents
    allValues,      \* allValues[p]: keys of the map allValues
    scan,           \* scan[p]: keys the running map range has yet to visit
    currentLayer,   \* currentLayer[p]
    result,         \* result[p]
    visited,        \* visited[a]: keys of the visited map at address a
    ret             \* ret[p]: what call p returned, (layers, err)

vars == <<nodes, pc, recv, idx, dependsOn, dependedOnBy, allValues, scan,
          currentLayer, result, visited, ret>>

-----------------------------------------------------------------------------
\* Maps and slices.

EmptyMap == [x \in {} |-> <<>>]

\* m[k] of a Go map: the zero value (a nil slice) when k is absent.
Get(m, k) == IF k \in DOMAIN m THEN m[k] ELSE <<>>

\* m[k] = v
Put(m, k, v) == [x \in DOMAIN m \cup {k} |-> IF x = k THEN v ELSE m[x]]

Elems(s) == {s[k] : k \in 1..Len(s)}

NoReturn == [layers |-> <<>>, err |-> ErrNil]

-----------------------------------------------------------------------------
\* AddNode

\* g.nodes after AddNode(value, deps): the pair is appended as given.
Appended(ns, value, deps) ==
    Append(ns, [value |-> value, deps |-> deps])

-----------------------------------------------------------------------------
\* SortByLayers: the pure parts of its loops.

\* The inner loop of the build: every dep gains this value as a dependent.
RECURSIVE AddDependents(_, _, _)
AddDependents(dby, value, deps) ==
    IF deps = <<>> THEN dby
    ELSE AddDependents(Put(dby, Head(deps), Append(Get(dby, Head(deps)), value)),
                       value, Tail(deps))

NoMaps == [allValues |-> {}, dependsOn |-> EmptyMap, dependedOnBy |-> EmptyMap]

\* The build as it would be if it recorded a dependent only for the
\* dependencies seen so far.
BuildNodeKnownOnly(m, node) ==
    [allValues |-> m.allValues \cup {node.value} \cup Elems(node.deps),
     dependsOn |-> Put(m.dependsOn, node.value, node.deps),
     dependedOnBy |-> AddDependents(m.dependedOnBy, node.value,
                          SelectSeq(node.deps, LAMBDA d : d \in m.allValues))]

\* One turn of the range over g.nodes: the three maps after this node.
BuildNode(m, node) ==
    [allValues |-> m.allValues \cup {node.value} \cup Elems(node.deps),
     dependsOn |-> Put(m.dependsOn, node.value, node.deps),
     dependedOnBy |-> AddDependents(m.dependedOnBy, node.value, node.deps)]

\* One visited map kept for every call, as a field of the graph would be.
VisitedShared(p) == 1

\* The address of the visited map call p makes: a fresh one for each call.
VisitedMap(p) == p

\* The first-layer test without its len(deps) == 0 half.
NoDepsAbsentOnly(don, value) == value \notin DOMAIN don

\* The test of the first-layer scan: no entry in dependsOn, or an empty one.
NoDeps(don, value) ==
    value \notin DOMAIN don \/ Len(don[value]) = 0

\* currentLayer = []T{value}: assignment in place of append.
OverwriteLayer(layer, value) == <<value>>

\* currentLayer = append(currentLayer, value)
GrowLayer(layer, value) == Append(layer, value)

\* The skip test without visited.
SkipLayerOnly(vis, layerDepMap, dependent) == dependent \in layerDepMap

\* The skip test without layerDepMap.
SkipVisitedOnly(vis, layerDepMap, dependent) == dependent \in vis

\* Already processed, or already in the next layer.
Skip(vis, layerDepMap, dependent) ==
    dependent \in vis \/ dependent \in layerDepMap

\* The loop over dependsOn[dependent], with its break.
AllDepsVisited(don, vis, dependent) ==
    \A k \in 1..Len(Get(don, dependent)) : Get(don, dependent)[k] \in vis

\* The loop over dependedOnBy[value]; acc is (nextLayer, layerDepMap).
RECURSIVE ScanDependents(_, _, _, _)
ScanDependents(acc, dependents, don, vis) ==
    IF dependents = <<>> THEN acc
    ELSE LET dependent == Head(dependents)
             next == IF Skip(vis, acc.layerDepMap, dependent) THEN acc
                     ELSE IF AllDepsVisited(don, vis, dependent)
                     THEN [nextLayer |-> Append(acc.nextLayer, dependent),
                           layerDepMap |-> acc.layerDepMap \cup {dependent}]
                     ELSE acc
         IN ScanDependents(next, Tail(dependents), don, vis)

\* The loop over currentLayer that finds the next layer.
RECURSIVE ScanLayer(_, _, _, _, _)
ScanLayer(acc, layer, dby, don, vis) ==
    IF layer = <<>> THEN acc
    ELSE ScanLayer(ScanDependents(acc, Get(dby, Head(layer)), don, vis),
                   Tail(layer), dby, don, vis)

NextLayer(layer, dby, don, vis) ==
    ScanLayer([nextLayer |-> <<>>, layerDepMap |-> {}], layer, dby, don, vis).nextLayer

\* The cycle test without its !visited[value] half.
StuckIgnoringVisited(don, vis, value) ==
    value \in DOMAIN don /\ Len(don[value]) > 0

\* The test of the final scan: an unvisited value that declared dependencies.
Stuck(don, vis, value) ==
    value \notin vis /\ value \in DOMAIN don /\ Len(don[value]) > 0

\* return nil, ErrCyclicDependency
ErrorReturn(layers) == [layers |-> <<>>, err |-> ErrCyclicDependency]

\* A range over the keys of a map, in one of its orders.
RECURSIVE SomeOrder(_)
SomeOrder(S) ==
    IF S = {} THEN <<>>
    ELSE LET x == CHOOSE y \in S : TRUE IN <<x>> \o SomeOrder(S \ {x})

\* The range over g.nodes, run to its end.
RECURSIVE BuildAll(_, _)
BuildAll(m, ns) ==
    IF ns = <<>> THEN m ELSE BuildAll(BuildNode(m, Head(ns)), Tail(ns))

\* The loop over the layers, run to its end.
RECURSIVE Peel(_, _, _, _)
Peel(layer, res, vis, m) ==
    IF Len(layer) = 0 THEN [result |-> res, visited |-> vis]
    ELSE Peel(NextLayer(layer, m.dependedOnBy, m.dependsOn, vis \cup Elems(layer)),
              Append(res, layer), vis \cup Elems(layer), m)

\* SortByLayers run alone from entry to return on the nodes ns.
SortByLayers(ns) ==
    LET m == BuildAll(NoMaps, ns)
        first == SelectSeq(SomeOrder(m.allValues), LAMBDA value : NoDeps(m.dependsOn, value))
        end == Peel(first, <<>>, {}, m)
    IN IF \E value \in m.allValues : Stuck(m.dependsOn, end.visited, value)
       THEN ErrorReturn(end.result)
       ELSE [layers |-> end.result, err |-> ErrNil]

-----------------------------------------------------------------------------
\* The state after construction: empty graphs, no call running.

Init ==
    /\ nodes = [g \in Graphs |-> <<>>]
    /\ pc = [p \in Calls |-> "idle"]
    /\ recv = [p \in Calls |-> NoGraph]
    /\ idx = [p \in Calls |-> 0]
    /\ dependsOn = [p \in Calls |-> EmptyMap]
    /\ dependedOnBy = [p \in Calls |-> EmptyMap]
    /\ allValues = [p \in Calls |-> {}]
    /\ scan = [p \in Calls |-> {}]
    /\ currentLayer = [p \in Calls |-> <<>>]
    /\ result = [p \in Calls |-> <<>>]
    /\ visited = [p \in Calls |-> {}]
    /\ ret = [p \in Calls |-> NoReturn]

\* No call of SortByLayers is running on graph g or holds a result of it:
\* AddNode and SortByLayers are not synchronised, so a caller adds nodes only
\* between sorts.
Quiet(g) == \A p \in Calls : recv[p] # g

callVars == <<pc, recv, idx, dependsOn, dependedOnBy, allValues, scan,
              currentLayer, result, visited, ret>>

\* g.AddNode(value, deps), for a graph of fewer than max nodes.
AddNode(g, max) ==
    /\ Quiet(g)
    /\ Len(nodes[g]) < max
    /\ \E value \in Ids, deps \in DepLists :
          nodes' = [nodes EXCEPT ![g] = Appended(nodes[g], value, deps)]
    /\ UNCHANGED callVars

\* g.AddNode(node, deps) for a pair of graph h that g does not hold yet: the
\* same pairs, passed in any order.
AddNodeSame(g, h) ==
    /\ Quiet(g)
    /\ \E k \in 1..Len(nodes[h]) :
          /\ \A j \in 1..Len(nodes[g]) : nodes[g][j].value # nodes[h][k].value
          /\ nodes' = [nodes EXCEPT ![g] =
                          Appended(nodes[g], nodes[h][k].value, nodes[h][k].deps)]
    /\ UNCHANGED callVars

\* Call p enters g.SortByLayers(): the three maps are made.
Call(p, g) ==
    /\ pc[p] = "idle"
    /\ pc' = [pc EXCEPT ![p] = "build"]
    /\ recv' = [recv EXCEPT ![p] = g]
    /\ idx' = [idx EXCEPT ![p] = 1]
    /\ dependsOn' = [dependsOn EXCEPT ![p] = EmptyMap]
    /\ dependedOnBy' = [dependedOnBy EXCEPT ![p] = EmptyMap]
    /\ allValues' = [allValues EXCEPT ![p] = {}]
    /\ UNCHANGED <<nodes, scan, currentLayer, result, visited, ret>>

\* One turn of the range over g.nodes, or its end.
Build(p) ==
    /\ pc[p] = "build"
    /\ IF idx[p] <= Len(nodes[recv[p]])
       THEN LET m == BuildNode([allValues |-> allValues[p],
                                dependsOn |-> dependsOn[p],
                                dependedOnBy |-> dependedOnBy[p]],
                               nodes[recv[p]][idx[p]]) IN
            /\ allValues' = [allValues EXCEPT ![p] = m.allValues]
            /\ dependsOn' = [dependsOn EXCEPT ![p] = m.dependsOn]
            /\ dependedOnBy' = [dependedOnBy EXCEPT ![p] = m.dependedOnBy]
            /\ idx' = [idx EXCEPT ![p] = @ + 1]
            /\ UNCHANGED <<pc, scan, currentLayer>>
       ELSE /\ pc' = [pc EXCEPT ![p] = "first"]
            /\ scan' = [scan EXCEPT ![p] = allValues[p]]
            /\ currentLayer' = [currentLayer EXCEPT ![p] = <<>>]
            /\ UNCHANGED <<allValues, dependsOn, dependedOnBy, idx>>
    /\ UNCHANGED <<nodes, recv, result, visited, ret>>

\* One turn of the range over allValues that finds the first layer, or its
\* end, where result and visited are made.
FirstLayer(p) ==
    /\ pc[p] = "first"
    /\ IF scan[p] # {}
       THEN /\ \E value \in scan[p] :
                 /\ scan' = [scan EXCEPT ![p] = @ \ {value}]
                 /\ currentLayer' = [currentLayer EXCEPT ![p] =
                        IF NoDeps(dependsOn[p], value) THEN GrowLayer(@, value) ELSE @]
            /\ UNCHANGED <<pc, result, visited>>
       ELSE /\ pc' = [pc EXCEPT ![p] = "loop"]
            /\ result' = [result EXCEPT ![p] = <<>>]
            /\ visited' = [visited EXCEPT ![VisitedMap(p)] = {}]
            /\ UNCHANGED <<scan, currentLayer>>
    /\ UNCHANGED <<nodes, recv, idx, dependsOn, dependedOnBy, allValues, ret>>

\* One turn of the loop over the layers, or its end.
Loop(p) ==
    /\ pc[p] = "loop"
    /\ IF Len(currentLayer[p]) > 0
       THEN LET vis == visited[VisitedMap(p)] \cup Elems(currentLayer[p]) IN
            /\ result' = [result EXCEPT ![p] = Append(@, currentLayer[p])]
            /\ visited' = [visited EXCEPT ![VisitedMap(p)] = vis]
            /\ currentLayer' = [currentLayer EXCEPT ![p] =
                   NextLayer(currentLayer[p], dependedOnBy[p], dependsOn[p], vis)]
            /\ UNCHANGED <<pc, scan>>
       ELSE /\ pc' = [pc EXCEPT ![p] = "check"]
            /\ scan' = [scan EXCEPT ![p] = allValues[p]]
            /\ UNCHANGED <<result, visited, currentLayer>>
    /\ UNCHANGED <<nodes, recv, idx, dependsOn, dependedOnBy, allValues, ret>>

\* The locals of a call that returned are gone.
Leave(p) ==
    /\ idx' = [idx EXCEPT ![p] = 0]
    /\ dependsOn' = [dependsOn EXCEPT ![p] = EmptyMap]
    /\ dependedOnBy' = [dependedOnBy EXCEPT ![p] = EmptyMap]
    /\ allValues' = [allValues EXCEPT ![p] = {}]
    /\ scan' = [scan EXCEPT ![p] = {}]
    /\ currentLayer' = [currentLayer EXCEPT ![p] = <<>>]
    /\ result' = [result EXCEPT ![p] = <<>>]
    /\ visited' = [visited EXCEPT ![VisitedMap(p)] = {}]

\* One turn of the final range over allValues, which returns the error at the
\* first stuck value it meets, or its end, which returns the layers.
Check(p) ==
    /\ pc[p] = "check"
    /\ IF scan[p] # {}
       THEN \E value \in scan[p] :
               IF Stuck(dependsOn[p], visited[VisitedMap(p)], value)
               THEN /\ ret' = [ret EXCEPT ![p] = ErrorReturn(result[p])]
                    /\ pc' = [pc EXCEPT ![p] = "done"]
                    /\ Leave(p)
                    /\ UNCHANGED <<recv>>
               ELSE /\ scan' = [scan EXCEPT ![p] = @ \ {value}]
                    /\ UNCHANGED <<pc, recv, idx, dependsOn, dependedOnBy, allValues,
                                   currentLayer, result, visited, ret>>
       ELSE /\ ret' = [ret EXCEPT ![p] = [layers |-> result[p], err |-> ErrNil]]
            /\ pc' = [pc EXCEPT ![p] = "done"]
            /\ Leave(p)
            /\ UNCHANGED <<recv>>
    /\ UNCHANGED <<nodes>>

\* The caller drops what call p returned.
Drop(p) ==
    /\ pc[p] = "done"
    /\ pc' = [pc EXCEPT ![p] = "idle"]
    /\ recv' = [recv EXCEPT ![p] = NoGraph]
    /\ ret' = [ret EXCEPT ![p] = NoReturn]
    /\ UNCHANGED <<nodes, idx, dependsOn, dependedOnBy, allValues, scan,
                   currentLayer, result, visited>>

\* Call p enters g.SortByLayers() once call q has returned.
CallAfter(p, g, q) ==
    /\ pc[q] = "done"
    /\ Call(p, g)

-----------------------------------------------------------------------------
\* One graph, one call at a time.
Next ==
    \/ AddNode(1, MaxNodes)
    \/ Call(1, 1)
    \/ Build(1)
    \/ FirstLayer(1)
    \/ Loop(1)
    \/ Check(1)
    \/ Drop(1)

Spec == Init /\ [][Next]_vars

\* One graph, two calls of SortByLayers whose steps interleave.
NextConc ==
    \/ AddNode(1, MaxNodesPair)
    \/ \E p \in Calls :
          \/ Call(p, 1)
          \/ Build(p)
          \/ FirstLayer(p)
          \/ Loop(p)
          \/ Check(p)
          \/ Drop(p)

SpecConc == Init /\ [][NextConc]_vars

\* Two graphs given the same pairs in any order, each sorted by one call, the
\* second after the first.
NextOrder ==
    \/ AddNode(1, MaxNodesPair)
    \/ AddNodeSame(2, 1)
    \/ Call(1, 1)
    \/ CallAfter(2, 2, 1)
    \/ \E p \in Calls :
          \/ Build(p)
          \/ FirstLayer(p)
          \/ Loop(p)
          \/ Check(p)
          \/ Drop(p)

SpecOrder == Init /\ [][NextOrder]_vars

\* A step of call p between its entry and its return.
Run(p) == Build(p) \/ FirstLayer(p) \/ Loop(p) \/ Check(p)

\* One graph, one call at a time, and a call that was entered keeps running:
\* SortByLayers waits for nothing, so its next step is always taken.
SpecFair == Spec /\ WF_vars(Run(1))

-----------------------------------------------------------------------------
\* What the claims speak of.

\* Call p of SortByLayers has returned.
Returned(p) == pc[p] = "done"

\* The pairs recorded in the graph call p sorted.
Recorded(p) == nodes[recv[p]]

\* The recorded dependency edges, (dependent, prerequisite), of every pair.
Edges(ns) ==
    UNION {{<<ns[k].value, ns[k].deps[j]>> : j \in 1..Len(ns[k].deps)} : k \in 1..Len(ns)}

\* Every identity passed to AddNode, as a node or inside a dependency list.
Identities(ns) ==
    {ns[k].value : k \in 1..Len(ns)} \cup UNION {Elems(ns[k].deps) : k \in 1..Len(ns)}

\* The dependencies declared for x by any of its AddNode calls.
Declared(ns, x) == {e[2] : e \in {f \in Edges(ns) : f[1] = x}}

\* The identities reachable from x along at least one and at most n edges.
RECURSIVE Reach(_, _, _)
Reach(E, x, n) ==
    IF n = 0 THEN {}
    ELSE LET direct == {e[2] : e \in {f \in E : f[1] = x}}
         IN direct \cup UNION {Reach(E, y, n - 1) : y \in direct}

HasCycle(E) == \E x \in Ids : x \in Reach(E, x, NumIds)

RECURSIVE Flat(_)
Flat(layers) == IF layers = <<>> THEN <<>> ELSE Head(layers) \o Flat(Tail(layers))

Placed(layers, x) == \E k \in 1..Len(layers) : x \in Elems(layers[k])

\* The layer of x, as validateLayerDependencies reads it: the last one holding x.
LayerOf(layers, x) ==
    CHOOSE k \in 1..Len(layers) :
        /\ x \in Elems(layers[k])
        /\ \A j \in (k + 1)..Len(layers) : x \notin Elems(layers[j])

\* The identities of the layers before layer k.
Before(layers, k) == UNION {Elems(layers[j]) : j \in 1..(k - 1)}

\* What a caller can tell of a return value when the order inside a layer is
\* left aside: the error and the sequence of layer sets.
Outcome(r) == [err |-> r.err, layers |-> [k \in 1..Len(r.layers) |-> Elems(r.layers[k])]]

Ordered(layers, E) ==
    \A e \in E :
        /\ Placed(layers, e[1])
        /\ Placed(layers, e[2])
        /\ LayerOf(layers, e[2]) < LayerOf(layers, e[1])

\* Some identity was added twice, with different dependency lists.
AddedTwice(ns) ==
    \E k, j \in 1..Len(ns) : k < j /\ ns[k].value = ns[j].value /\ ns[k].deps # ns[j].deps

DistinctIds(ns) ==
    \A k, j \in 1..Len(ns) : k # j => ns[k].value # ns[j].value

SamePairs(ns, ms) ==
    Len(ns) = Len(ms) /\ Elems(ns) = Elems(ms)

-----------------------------------------------------------------------------
\* C1: when SortByLayers returns without error, every recorded dependency
\* edge, of any AddNode call made, has its prerequisite in a strictly earlier
\* layer than its dependent.
C1_EdgesOrdered ==
    \A p \in Calls :
        (Returned(p) /\ ret[p].err = ErrNil) =>
            Ordered(ret[p].layers, Edges(Recorded(p)))

\* C2: when SortByLayers returns without error, the concatenation of the
\* layers holds every identity passed to AddNode (as a node or as a
\* dependency), each exactly once, and nothing else.
C2_Coverage ==
    \A p \in Calls :
        (Returned(p) /\ ret[p].err = ErrNil) =>
            /\ Elems(Flat(ret[p].layers)) = Identities(Recorded(p))
            /\ Len(Flat(ret[p].layers)) = Cardinality(Identities(Recorded(p)))

\* A dependent with two different prerequisites of one layer, one of them
\* listed twice by another pair, was sorted.
C2_Witness ==
    /\ Returned(1)
    /\ ret[1].err = ErrNil
    /\ Len(ret[1].layers) >= 2
    /\ \E k \in 1..Len(Recorded(1)) :
          /\ Len(Recorded(1)[k].deps) = 2
          /\ Recorded(1)[k].deps[1] # Recorded(1)[k].deps[2]
          /\ Elems(Recorded(1)[k].deps) \subseteq Elems(ret[1].layers[1])
    /\ \E k \in 1..Len(Recorded(1)) :
          /\ Len(Recorded(1)[k].deps) = 2
          /\ Recorded(1)[k].deps[1] = Recorded(1)[k].deps[2]

\* C3: a graph whose recorded edges, over all AddNode calls made, contain a
\* cycle makes SortByLayers return ErrCyclicDependency and no layers.
C3_CycleRejected ==
    \A p \in Calls :
        (Returned(p) /\ HasCycle(Edges(Recorded(p)))) =>
            /\ ret[p].err = ErrCyclicDependency
            /\ ret[p].layers = <<>>

\* C4: when SortByLayers returns without error, an identity with no declared
\* dependency is in the first layer, an identity of a later layer has a
\* declared dependency in the layer just before, and every layer holds each
\* identity whose declared dependencies are all before it and that is not.
C4_Earliest ==
    \A p \in Calls :
        (Returned(p) /\ ret[p].err = ErrNil) =>
            LET ns == Recorded(p)
                L == ret[p].layers
            IN /\ \A x \in Identities(ns) :
                      Declared(ns, x) = {} => (Len(L) >= 1 /\ x \in Elems(L[1]))
               /\ \A k \in 2..Len(L) : \A x \in Elems(L[k]) :
                      Declared(ns, x) \cap Elems(L[k - 1]) # {}
               /\ \A k \in 1..Len(L) : \A x \in Identities(ns) :
                      (Declared(ns, x) \subseteq Before(L, k) /\ x \notin Before(L, k))
                          => x \in Elems(L[k])

\* Three layers, and an identity of the third that depends on the first layer
\* as well as on the second.
C4_Witness ==
    /\ Returned(1)
    /\ ret[1].err = ErrNil
    /\ Len(ret[1].layers) = 3
    /\ \E x \in Elems(ret[1].layers[3]) :
          /\ Declared(Recorded(1), x) \cap Elems(ret[1].layers[1]) # {}
          /\ Declared(Recorded(1), x) \cap Elems(ret[1].layers[2]) # {}

\* C5: SortByLayers returns nil or ErrCyclicDependency, and the latter only
\* when the recorded edges contain a cycle.
C5_ErrorOnlyOnCycle ==
    \A p \in Calls :
        Returned(p) =>
            /\ ret[p].err \in {ErrNil, ErrCyclicDependency}
            /\ ret[p].err = ErrCyclicDependency => HasCycle(Edges(Recorded(p)))

\* An acyclic graph with an identity added twice, a dependency list that
\* repeats an identity and an implicit node was sorted without error.
C5_Witness ==
    /\ Returned(1)
    /\ ret[1].err = ErrNil
    /\ ~HasCycle(Edges(Recorded(1)))
    /\ AddedTwice(Recorded(1))
    /\ \E k \in 1..Len(Recorded(1)) :
          /\ Len(Recorded(1)[k].deps) = 2
          /\ Recorded(1)[k].deps[1] = Recorded(1)[k].deps[2]
    /\ \E x \in Identities(Recorded(1)) :
          \A k \in 1..Len(Recorded(1)) : Recorded(1)[k].value # x

\* C6: when an identity was added more than once with different lists, the
\* union of its lists is enforced: a cycle through any of them is an error,
\* and otherwise the identity lies after every dependency of every list.
C6_UnionEnforced ==
    \A p \in Calls :
        (Returned(p) /\ AddedTwice(Recorded(p))) =>
            IF HasCycle(Edges(Recorded(p)))
            THEN ret[p].err = ErrCyclicDependency
            ELSE /\ ret[p].err = ErrNil
                 /\ Ordered(ret[p].layers, Edges(Recorded(p)))

\* C7: two returns of SortByLayers on the same unmodified graph, whatever
\* order their map ranges took and however often it was called before, have
\* the same error and the same sequence of layer sets.
C7_Deterministic ==
    \A p, q \in Calls :
        (Returned(p) /\ Returned(q) /\ recv[p] = recv[q]) =>
            Outcome(ret[p]) = Outcome(ret[q])

\* Two calls returned layers whose elements are in different orders.
C7_Witness ==
    /\ Returned(1)
    /\ Returned(2)
    /\ recv[1] = recv[2]
    /\ ret[1].err = ErrNil
    /\ Len(ret[1].layers) >= 2
    /\ ret[1].layers # ret[2].layers

\* C8: two graphs given the same pairs, of pairwise distinct identities, in
\* different orders are sorted to the same outcome.
C8_OrderIndependent ==
    (/\ Returned(1) /\ recv[1] = 1
     /\ Returned(2) /\ recv[2] = 2
     /\ DistinctIds(nodes[1])
     /\ SamePairs(nodes[1], nodes[2])) =>
        Outcome(ret[1]) = Outcome(ret[2])

\* The second graph got the pairs in another order, its first node depending
\* on its second, and both were sorted into two layers or more.
C8_Witness ==
    /\ Returned(1) /\ recv[1] = 1
    /\ Returned(2) /\ recv[2] = 2
    /\ DistinctIds(nodes[1])
    /\ SamePairs(nodes[1], nodes[2])
    /\ nodes[1] # nodes[2]
    /\ Len(nodes[2]) = 2
    /\ nodes[2][2].value \in Elems(nodes[2][1].deps)
    /\ ret[2].err = ErrNil
    /\ Len(ret[2].layers) >= 2

\* What call p holds: its position, its locals and its return value.
Locals(p) ==
    <<pc[p], recv[p], idx[p], dependsOn[p], dependedOnBy[p], allValues[p], scan[p],
      currentLayer[p], result[p], visited[VisitedMap(p)], ret[p]>>

\* C9: with several calls of SortByLayers interleaved on one graph, a step
\* that changes what one call holds changes neither the recorded nodes nor
\* what another call holds, and each call returns the outcome of a call run
\* alone.
C9_ConcurrentSafe ==
    /\ [](\A p \in Calls :
            Returned(p) => Outcome(ret[p]) = Outcome(SortByLayers(Recorded(p))))
    /\ [][\A p \in Calls :
            Locals(p)' # Locals(p) =>
                /\ nodes' = nodes
                /\ \A q \in Calls \ {p} : Locals(q)' = Locals(q)]_vars

\* Both calls are inside the loop over the layers of the same graph, having
\* visited different sets of values.
C9_Witness ==
    /\ pc[1] = "loop"
    /\ pc[2] = "loop"
    /\ recv[1] = recv[2]
    /\ visited[VisitedMap(1)] # {}
    /\ visited[VisitedMap(2)] # {}
    /\ visited[VisitedMap(1)] # visited[VisitedMap(2)]

\* C10: the first layer of a non-empty result is exactly the set of the
\* identities with no declared prerequisite; no identity with a non-empty
\* declared dependency list is in it.
C10_FirstLayer ==
    \A p \in Calls :
        (Returned(p) /\ ret[p].layers # <<>>) =>
            Elems(ret[p].layers[1]) =
                {x \in Identities(Recorded(p)) : Declared(Recorded(p), x) = {}}

\* C11: SortByLayers terminates on every graph.  At the head of the loop
\* over the layers the current layer holds no value twice and only values not
\* yet visited, every layer appended so far is non-empty and there are at most
\* as many of them as values visited, which are values of the graph; a turn
\* of the loop visits at least one more value and appends one layer; the loop
\* is left only with an empty current layer; the layers returned are at most
\* as many as the identities of the graph; and the call, once entered,
\* returns.
C11_Terminates ==
    /\ [](\A p \in Calls :
            /\ pc[p] = "loop" =>
                  /\ Elems(currentLayer[p]) \cap visited[VisitedMap(p)] = {}
                  /\ Cardinality(Elems(currentLayer[p])) = Len(currentLayer[p])
                  /\ \A k \in 1..Len(result[p]) : Len(result[p][k]) > 0
                  /\ Len(result[p]) <= Cardinality(visited[VisitedMap(p)])
                  /\ visited[VisitedMap(p)] \cup Elems(currentLayer[p]) \subseteq allValues[p]
                  /\ allValues[p] = Identities(Recorded(p))
            /\ Returned(p) =>
                  /\ Len(ret[p].layers) <= Cardinality(Identities(Recorded(p)))
                  /\ \A k \in 1..Len(ret[p].layers) : Len(ret[p].layers[k]) > 0)
    /\ [][\A p \in Calls :
            /\ (pc[p] = "loop" /\ pc'[p] = "loop") =>
                  /\ Len(currentLayer[p]) > 0
                  /\ visited[VisitedMap(p)] \subseteq visited'[VisitedMap(p)]
                  /\ visited'[VisitedMap(p)] # visited[VisitedMap(p)]
                  /\ Len(result'[p]) = Len(result[p]) + 1
            /\ (pc[p] = "loop" /\ pc'[p] = "check") =>
                  Len(currentLayer[p]) = 0]_vars
    /\ (pc[1] = "build") ~> Returned(1)

\* On a graph with a cycle the loop over the layers took two turns and stands
\* at its head with an empty current layer.
C11_Witness ==
    /\ pc[1] = "loop"
    /\ HasCycle(Edges(Recorded(1)))
    /\ Len(result[1]) = 2
    /\ currentLayer[1] = <<>>
    /\ visited[VisitedMap(1)] # allValues[1]

====
